---- MODULE Spec2Model ----
(***************************************************************************)
(* Model of the job scheduler engine (src/src/scheduler.ts, lines 1-392),  *)
(* of the YAML configuration source (src/src/yaml-manager.ts) and of the   *)
(* startup and the fatal-error handlers of src/src/index.ts.               *)
(*                                                                         *)
(* A node-cron ScheduledTask is modelled by its value: the JobConfig its   *)
(* callback closed over and whether its timer is armed.  A task that the   *)
(* registry no longer references and whose timer is stopped can never be   *)
(* started again (start() walks the registry only), so it is dropped; a    *)
(* task that is no longer referenced but still armed is kept in            *)
(* `detached`, because its timer keeps firing.                             *)
(*                                                                         *)
(* Time is in milliseconds, as Date.now() is.  Optional fields are         *)
(* sequences of length 0 (absent, undefined, null) or 1 (present).         *)
(*                                                                         *)
(* An executeJob call is cut at its awaits (the HTTP call, the backoff     *)
(* sleep); a suspended call carries the request it has out, as makeRequest *)
(* built it.  retries is an integer in the model.                          *)
(***************************************************************************)
EXTENDS Integers, Sequences, FiniteSets, TLC

VARIABLES
    jobs,          \* JobScheduler.jobs: job name -> task
    detached,      \* armed tasks that the registry no longer references
    runtimeState,  \* JobScheduler.runtimeState: job name -> JobRuntimeState
    inflight,      \* executeJob calls suspended in an HTTP call or a sleep
    now,           \* Date.now()
    started,       \* history: job name -> time its most recent executeJob call began
    last,          \* the most recent call or event: what a caller or the log sees
    jwtToken,      \* JobScheduler.jwtToken: the token read at construction
    currentToken,  \* the bearer token that is current (JWT_TOKEN, or a rotated one)
    process,       \* index.ts: "running", or "exiting" once a fatal-error handler ran
    yamlFile,      \* the jobs file: its job definitions, or none when it is missing
    watcher,       \* YamlManager: "none" before initialize, then "idle" or "pending"
    env,           \* process.env: JWT_TOKEN and JWT_SECRET, each set or not
    tokenManager   \* TokenManager: ttlSeconds, refreshBufferSeconds, cache

\* last.op comes first: two events of different operations differ there,
\* whatever the kinds of value they carry
vars == <<last.op, jobs, detached, runtimeState, inflight, now, started, last,
          jwtToken, currentToken, process, yamlFile, watcher, env, tokenManager>>

----------------------------------------------------------------------------
(* Bounds of the model *)

MaxBatch == 2        \* longest job list handed to updateJobsFromYaml
MaxInFlight == 1     \* most executeJob calls in flight at once
MaxTicks == 2        \* the clock advances at most this many minutes

----------------------------------------------------------------------------
(* Optional values *)

None == <<>>
Some(x) == <<x>>
Val(o) == o[1]

MapSet(m, k, v) == [x \in (DOMAIN m) \cup {k} |-> IF x = k THEN v ELSE m[x]]
MapDelete(m, k) == [x \in (DOMAIN m) \ {k} |-> m[x]]

----------------------------------------------------------------------------
(* Job definitions *)

JobNames == {"A", "B"}

ValidCron == {"0 * * * *", "*/5 * * * * *"}
InvalidCron == {"61 * * * *"}
CronExprs == ValidCron \cup InvalidCron

\* the schedules of the sample jobs file
SampleCron == {"*/5 * * * * *", "0 * * * * *", "0 */2 * * * *"}

\* cron.validate of node-cron, on the expressions the model draws from
validate(cronExpression) == cronExpression \in ValidCron \cup SampleCron

Undefined == "undefined"
MinuteMs == 60000
DefaultTtlSeconds == 5184000
DefaultRefreshBufferSeconds == 3600

BaseConfig(n) ==
    [name |-> n, cronExpression |-> "0 * * * *", enabled |-> TRUE,
     retries |-> Some(1), dependsOn |-> None, headers |-> None,
     method |-> "GET", data |-> None]

\* job definitions that differ in what the registry looks at
RegistryConfigs ==
    UNION { { [BaseConfig(n) EXCEPT !.cronExpression = e] : e \in CronExprs }
            \cup { [BaseConfig(n) EXCEPT !.enabled = FALSE] } : n \in JobNames }

\* job definitions that differ in what a firing looks at: A with the default
\* three attempts, B with one attempt and gated on A not having run in the
\* last minute
FiringConfigs ==
    { [BaseConfig("A") EXCEPT !.retries = None],
      [BaseConfig("B") EXCEPT !.dependsOn =
          Some([job |-> "A", condition |-> "not_ran", windowMinutes |-> Some(1)])] }

\* job definitions that differ in what the retry loop looks at: retries
\* absent, positive and negative
RetryConfigs ==
    { [BaseConfig("A") EXCEPT !.retries = r] : r \in {None, Some(2), Some(-1)} }

\* a job with enough attempts for the backoff to reach its cap, and one with
\* retries: 0
BackoffConfigs ==
    { [BaseConfig("A") EXCEPT !.retries = r] : r \in {Some(8), Some(0)} }

\* a dependency policy on job A
Policy(condition, windowMinutes) ==
    Some([job |-> "A", condition |-> condition, windowMinutes |-> windowMinutes])

\* job definitions that differ in what the dependency check looks at: not
\* gated, and gated on A under each condition, the absent one included, with
\* a window of one minute or the default window
PolicyConfigs ==
    { BaseConfig("B") }
    \cup { [BaseConfig("B") EXCEPT !.dependsOn = Policy(c, w)] :
               c \in {Undefined, "not_ran", "failed", "not_ran_or_failed"},
               w \in {None, Some(1)} }

\* the jobs that fire in the dependency scenarios: A, not gated, and B gated
\* on A under not_ran_or_failed, spelled out or by default
DependencyConfigs ==
    { BaseConfig("A") }
    \cup { [BaseConfig("B") EXCEPT !.dependsOn = Policy(c, Some(1))] :
               c \in {Undefined, "not_ran_or_failed"} }

\* A, not gated, and B gated on A under failed, with a window of one minute
FailedGateConfigs ==
    { BaseConfig("A"),
      [BaseConfig("B") EXCEPT !.dependsOn = Policy("failed", Some(1))] }

\* the jobs that fire while the registry is reconciled: A with two
\* attempts, and B gated on A not having run
ReconcileConfigs ==
    { [BaseConfig("A") EXCEPT !.retries = Some(2)],
      [BaseConfig("B") EXCEPT !.dependsOn = Policy("not_ran", Some(1))] }

\* two jobs that fire side by side: A with two attempts, B with one
ConcurrentConfigs ==
    { [BaseConfig("A") EXCEPT !.retries = Some(2)], BaseConfig("B") }

\* job definitions that differ in the body they send: none, the week-range
\* marker alone or beside another field, with a method that carries a body
\* or not
PayloadConfigs ==
    { [BaseConfig("A") EXCEPT !.method = m, !.data = d] :
          m \in {"GET", "POST"},
          d \in {None, Some([weekRange |-> "current"]),
                 Some([weekRange |-> "current", team |-> "sales"])} }

\* job definitions that differ in the headers they supply: none, an
\* Authorization header (two values), another header
DispatchConfigs ==
    { [BaseConfig("A") EXCEPT !.retries = Some(2), !.headers = h] :
          h \in {None,
                 Some("Authorization" :> "Bearer job-token-1"),
                 Some("Authorization" :> "Bearer job-token-2"),
                 Some("X-API-Key" :> "key")} }

JobLists(C) == UNION { [1..k -> C] : k \in 0..MaxBatch }

----------------------------------------------------------------------------
(* The registry: registerJob, removeJob, start, stop, updateJobsFromYaml *)

\* a plausible slip: the task is created dormant (scheduled: false)
schedule_Dormant(config, scheduled) == [config |-> config, running |-> FALSE]

\* cron.schedule(expr, callback, {scheduled}): the task and its timer
schedule(config, scheduled) == [config |-> config, running |-> scheduled]

taskStop(task) == [task EXCEPT !.running = FALSE]
taskStart(task) == [task EXCEPT !.running = TRUE]

\* a task loses its place in the registry: it lives on only while its timer
\* is armed
Release(d, task) == IF task.running THEN d \cup {task} ELSE d

\* a plausible slip: the binding is deleted, its timer is not stopped
removeJobOn_NoStop(s, jobName) ==
    IF jobName \in DOMAIN s.jobs
    THEN [jobs |-> MapDelete(s.jobs, jobName),
          detached |-> Release(s.detached, s.jobs[jobName]),
          ret |-> TRUE]
    ELSE [jobs |-> s.jobs, detached |-> s.detached, ret |-> FALSE]

removeJobOn(s, jobName) ==
    IF jobName \in DOMAIN s.jobs
    THEN LET task == taskStop(s.jobs[jobName])
         IN  [jobs |-> MapDelete(s.jobs, jobName),
              detached |-> Release(s.detached, task),
              ret |-> TRUE]
    ELSE [jobs |-> s.jobs, detached |-> s.detached, ret |-> FALSE]

\* Map.set: the entry's previous task, if any, is no longer referenced
jobsSet(s, name, task) ==
    [jobs |-> MapSet(s.jobs, name, task),
     detached |-> IF name \in DOMAIN s.jobs
                  THEN Release(s.detached, s.jobs[name])
                  ELSE s.detached]

\* a plausible slip: the expression is validated before the old binding is
\* removed, so a rejected definition leaves the old binding in place
registerJobOn_ValidateFirst(s, config) ==
    IF ~validate(config.cronExpression)
    THEN [jobs |-> s.jobs, detached |-> s.detached, threw |-> TRUE]
    ELSE LET s1 == IF config.name \in DOMAIN s.jobs
                   THEN removeJobOn(s, config.name)
                   ELSE s
             s2 == jobsSet(s1, config.name, schedule(config, TRUE))
         IN  [jobs |-> s2.jobs, detached |-> s2.detached, threw |-> FALSE]

\* a plausible slip: the old binding is overwritten without being removed
registerJobOn_NoRemove(s, config) ==
    IF ~validate(config.cronExpression)
    THEN [jobs |-> s.jobs, detached |-> s.detached, threw |-> TRUE]
    ELSE LET s2 == jobsSet(s, config.name, schedule(config, TRUE))
         IN  [jobs |-> s2.jobs, detached |-> s2.detached, threw |-> FALSE]

registerJobOn(s, config) ==
    LET s1 == IF config.name \in DOMAIN s.jobs
              THEN removeJobOn(s, config.name)
              ELSE s
    IN  IF ~validate(config.cronExpression)
        THEN [jobs |-> s1.jobs, detached |-> s1.detached, threw |-> TRUE]
        ELSE LET s2 == jobsSet(s1, config.name, schedule(config, TRUE))
             IN  [jobs |-> s2.jobs, detached |-> s2.detached, threw |-> FALSE]

\* a plausible slip: a binding whose call is in flight is left armed
stopOn_SparesBusy(s) ==
    [jobs |-> [n \in DOMAIN s.jobs |->
                  IF \E c \in DOMAIN inflight : c.config.name = n
                  THEN s.jobs[n] ELSE taskStop(s.jobs[n])],
     detached |-> s.detached]

stopOn(s) ==
    [jobs |-> [n \in DOMAIN s.jobs |-> taskStop(s.jobs[n])], detached |-> s.detached]

Void == "void"
ThrowsStartFailed == "Error: task.start() failed"

\* a plausible slip: no try/catch around task.start(); a binding that fails
\* to start ends the loop (here it is the first one) and start() throws
startOn_Abort(s, failing) ==
    IF failing \cap DOMAIN s.jobs = {}
    THEN [jobs |-> [n \in DOMAIN s.jobs |-> taskStart(s.jobs[n])],
          detached |-> s.detached, ret |-> Void,
          startedCount |-> Cardinality(DOMAIN s.jobs)]
    ELSE [jobs |-> s.jobs, detached |-> s.detached, ret |-> ThrowsStartFailed,
          startedCount |-> 0]

\* the loop of start(): task.start() on every binding, each in its own
\* try/catch; failing holds the names whose task.start() throws
startOn(s, failing) ==
    [jobs |-> [n \in DOMAIN s.jobs |->
                  IF n \in failing THEN s.jobs[n] ELSE taskStart(s.jobs[n])],
     detached |-> s.detached, ret |-> Void,
     startedCount |-> Cardinality(DOMAIN s.jobs \ failing)]

\* this.jobs.clear(): no task of the registry is referenced any more
jobsClear(s) ==
    [jobs |-> << >>,
     detached |-> s.detached \cup { s.jobs[n] : n \in { m \in DOMAIN s.jobs : s.jobs[m].running } }]

RECURSIVE forEachRegister_Abort(_, _, _)
\* a plausible slip: no try/catch around registerJob, the first rejected
\* definition ends the loop
forEachRegister_Abort(s, list, i) ==
    IF i > Len(list)
    THEN s
    ELSE LET r == registerJobOn(s, list[i])
         IN  IF r.threw
             THEN [jobs |-> r.jobs, detached |-> r.detached,
                   successCount |-> s.successCount, errorCount |-> s.errorCount + 1]
             ELSE forEachRegister_Abort(
                      [jobs |-> r.jobs, detached |-> r.detached,
                       successCount |-> s.successCount + 1,
                       errorCount |-> s.errorCount],
                      list, i + 1)

RECURSIVE forEachRegister(_, _, _)
\* jobs.forEach(job => { try { registerJob(job); successCount++ }
\*                       catch { errorCount++ } }), from element i on
forEachRegister(s, list, i) ==
    IF i > Len(list)
    THEN s
    ELSE LET r == registerJobOn(s, list[i])
         IN  forEachRegister(
                 [jobs |-> r.jobs, detached |-> r.detached,
                  successCount |-> s.successCount + (IF r.threw THEN 0 ELSE 1),
                  errorCount |-> s.errorCount + (IF r.threw THEN 1 ELSE 0)],
                 list, i + 1)

\* a plausible slip: the old bindings are neither stopped nor cleared
updateJobsFromYamlOn_NoClear(s, list) ==
    forEachRegister(
        [jobs |-> s.jobs, detached |-> s.detached,
         successCount |-> 0, errorCount |-> 0],
        list, 1)

\* a plausible slip: the registry is cleared without stopping its timers
updateJobsFromYamlOn_NoStop(s, list) ==
    LET cleared == jobsClear(s)
    IN  forEachRegister(
            [jobs |-> cleared.jobs, detached |-> cleared.detached,
             successCount |-> 0, errorCount |-> 0],
            list, 1)

updateJobsFromYamlOn(s, list) ==
    LET cleared == jobsClear(stopOn(s))
    IN  forEachRegister(
            [jobs |-> cleared.jobs, detached |-> cleared.detached,
             successCount |-> 0, errorCount |-> 0],
            list, 1)

Registry == [jobs |-> jobs, detached |-> detached]

\* what the caller gets back (ret) and what only reaches the log (log)
Event(op, arg, ret, log) == [op |-> op, arg |-> arg, ret |-> ret, log |-> log]

ThrowsInvalidCron == "Error: Invalid cron expression"

getJobNames == DOMAIN jobs

\* isJobRunning: whether a task is registered under the name
isJobRunning(jobName) == jobName \in DOMAIN jobs

getStatus ==
    [totalJobs |-> Cardinality(getJobNames),
     runningJobs |-> Cardinality({ name \in getJobNames : isJobRunning(name) }),
     jobNames |-> getJobNames]

registerJob(config) ==
    LET r == registerJobOn(Registry, config)
    IN  /\ jobs' = r.jobs
        /\ detached' = r.detached
        /\ last' = Event("registerJob", config,
                          IF r.threw THEN ThrowsInvalidCron ELSE Void,
                          [removedOld |-> config.name \in DOMAIN jobs])
        /\ UNCHANGED <<runtimeState, inflight, now, started, jwtToken, currentToken, process, yamlFile, watcher, env, tokenManager>>

\* a plausible slip: removing a job also drops its calls in flight
removeJob_CancelsCalls(jobName) ==
    LET r == removeJobOn(Registry, jobName)
    IN  /\ jobs' = r.jobs
        /\ detached' = r.detached
        /\ inflight' = [c \in { d \in DOMAIN inflight : d.config.name # jobName } |->
                           inflight[c]]
        /\ last' = Event("removeJob", jobName, r.ret, None)
        /\ UNCHANGED <<runtimeState, now, started, jwtToken, currentToken, process, yamlFile, watcher, env, tokenManager>>

removeJob(jobName) ==
    LET r == removeJobOn(Registry, jobName)
    IN  /\ jobs' = r.jobs
        /\ detached' = r.detached
        /\ last' = Event("removeJob", jobName, r.ret, None)
        /\ UNCHANGED <<runtimeState, inflight, now, started, jwtToken, currentToken, process, yamlFile, watcher, env, tokenManager>>

\* the counter only reaches the log
start(failing) ==
    LET r == startOn(Registry, failing)
    IN  /\ jobs' = r.jobs
        /\ detached' = r.detached
        /\ last' = Event("start", failing, r.ret, r.startedCount)
        /\ UNCHANGED <<runtimeState, inflight, now, started, jwtToken, currentToken, process, yamlFile, watcher, env, tokenManager>>

stop ==
    LET r == stopOn(Registry)
    IN  /\ jobs' = r.jobs
        /\ detached' = r.detached
        /\ last' = Event("stop", None, Void, None)
        /\ UNCHANGED <<runtimeState, inflight, now, started, jwtToken, currentToken, process, yamlFile, watcher, env, tokenManager>>

\* a plausible slip: the old bindings are stopped and cleared at once, the
\* new ones are registered in a later turn of the event loop
updateJobsFromYaml_Deferred(list) ==
    LET r == jobsClear(stopOn(Registry))
    IN  /\ jobs' = r.jobs
        /\ detached' = r.detached
        /\ last' = Event("updateJobsFromYaml", list, Void,
                          [successCount |-> 0, errorCount |-> 0])
        /\ UNCHANGED <<runtimeState, inflight, now, started, jwtToken, currentToken, process, yamlFile, watcher, env, tokenManager>>

\* a plausible slip: the history of the jobs that are gone is dropped
updateJobsFromYaml_ForgetsHistory(list) ==
    LET r == updateJobsFromYamlOn(Registry, list)
    IN  /\ jobs' = r.jobs
        /\ detached' = r.detached
        /\ runtimeState' = [n \in DOMAIN runtimeState \cap DOMAIN r.jobs |-> runtimeState[n]]
        /\ last' = Event("updateJobsFromYaml", list, Void,
                          [successCount |-> r.successCount, errorCount |-> r.errorCount])
        /\ UNCHANGED <<inflight, now, started, jwtToken, currentToken, process, yamlFile, watcher, env, tokenManager>>

\* the call returns nothing; the two counters only reach the log
updateJobsFromYaml(list) ==
    LET r == updateJobsFromYamlOn(Registry, list)
    IN  /\ jobs' = r.jobs
        /\ detached' = r.detached
        /\ last' = Event("updateJobsFromYaml", list, Void,
                          [successCount |-> r.successCount, errorCount |-> r.errorCount])
        /\ UNCHANGED <<runtimeState, inflight, now, started, jwtToken, currentToken, process, yamlFile, watcher, env, tokenManager>>

----------------------------------------------------------------------------
(* The Runtime State Store and the dependency check *)

Null == None

NoRuntimeState == [lastRunAt |-> Null, lastSuccessAt |-> Null, lastFailureAt |-> Null]

\* updates: a record holding some of the three fields
touchRuntimeState(rs, jobName, updates) ==
    LET current == IF jobName \in DOMAIN rs THEN rs[jobName] ELSE NoRuntimeState
        next == [f \in DOMAIN current |->
                    IF f \in DOMAIN updates THEN updates[f] ELSE current[f]]
    IN  MapSet(rs, jobName, next)

DefaultWindowMinutes == 180

\* a plausible slip: not_ran looks at the last success, not at the last run
shouldRunBasedOnDependency_NotRanBySuccess(config, rs, t) ==
    IF config.dependsOn = None
    THEN TRUE
    ELSE LET dependency == Val(config.dependsOn)
             condition == IF dependency.condition = Undefined
                          THEN "not_ran_or_failed"
                          ELSE dependency.condition
             windowMinutes == IF dependency.windowMinutes = None
                              THEN DefaultWindowMinutes
                              ELSE Val(dependency.windowMinutes)
             windowStart == t - windowMinutes * 60 * 1000
             hasState == dependency.job \in DOMAIN rs
             depLastRun == IF hasState THEN rs[dependency.job].lastRunAt ELSE Null
             depLastSuccess == IF hasState THEN rs[dependency.job].lastSuccessAt ELSE Null
             ranInWindow == IF depLastRun # Null
                            THEN Val(depLastRun) >= windowStart
                            ELSE FALSE
             succeededInWindow == IF depLastSuccess # Null
                                  THEN Val(depLastSuccess) >= windowStart
                                  ELSE FALSE
         IN  IF condition = "not_ran"
             THEN ~succeededInWindow
             ELSE IF condition = "failed"
                  THEN ranInWindow /\ ~succeededInWindow
                  ELSE (~ranInWindow) \/ (ranInWindow /\ ~succeededInWindow)

\* a plausible slip: a timestamp equal to windowStart counts as outside
shouldRunBasedOnDependency_StrictWindow(config, rs, t) ==
    IF config.dependsOn = None
    THEN TRUE
    ELSE LET dependency == Val(config.dependsOn)
             condition == IF dependency.condition = Undefined
                          THEN "not_ran_or_failed"
                          ELSE dependency.condition
             windowMinutes == IF dependency.windowMinutes = None
                              THEN DefaultWindowMinutes
                              ELSE Val(dependency.windowMinutes)
             windowStart == t - windowMinutes * 60 * 1000
             hasState == dependency.job \in DOMAIN rs
             depLastRun == IF hasState THEN rs[dependency.job].lastRunAt ELSE Null
             depLastSuccess == IF hasState THEN rs[dependency.job].lastSuccessAt ELSE Null
             ranInWindow == IF depLastRun # Null
                            THEN Val(depLastRun) > windowStart
                            ELSE FALSE
             succeededInWindow == IF depLastSuccess # Null
                                  THEN Val(depLastSuccess) > windowStart
                                  ELSE FALSE
         IN  IF condition = "not_ran"
             THEN ~ranInWindow
             ELSE IF condition = "failed"
                  THEN ranInWindow /\ ~succeededInWindow
                  ELSE (~ranInWindow) \/ (ranInWindow /\ ~succeededInWindow)

\* a plausible slip: the last branch is shortened to !succeededInWindow
shouldRunBasedOnDependency_Simplified(config, rs, t) ==
    IF config.dependsOn = None
    THEN TRUE
    ELSE LET dependency == Val(config.dependsOn)
             condition == IF dependency.condition = Undefined
                          THEN "not_ran_or_failed"
                          ELSE dependency.condition
             windowMinutes == IF dependency.windowMinutes = None
                              THEN DefaultWindowMinutes
                              ELSE Val(dependency.windowMinutes)
             windowStart == t - windowMinutes * 60 * 1000
             hasState == dependency.job \in DOMAIN rs
             depLastRun == IF hasState THEN rs[dependency.job].lastRunAt ELSE Null
             depLastSuccess == IF hasState THEN rs[dependency.job].lastSuccessAt ELSE Null
             ranInWindow == IF depLastRun # Null
                            THEN Val(depLastRun) >= windowStart
                            ELSE FALSE
             succeededInWindow == IF depLastSuccess # Null
                                  THEN Val(depLastSuccess) >= windowStart
                                  ELSE FALSE
         IN  IF condition = "not_ran"
             THEN ~ranInWindow
             ELSE IF condition = "failed"
                  THEN ranInWindow /\ ~succeededInWindow
                  ELSE ~succeededInWindow

\* a plausible slip: the last branch forgets the dependency that did not run
shouldRunBasedOnDependency_NeedsRun(config, rs, t) ==
    IF config.dependsOn = None
    THEN TRUE
    ELSE LET dependency == Val(config.dependsOn)
             condition == IF dependency.condition = Undefined
                          THEN "not_ran_or_failed"
                          ELSE dependency.condition
             windowMinutes == IF dependency.windowMinutes = None
                              THEN DefaultWindowMinutes
                              ELSE Val(dependency.windowMinutes)
             windowStart == t - windowMinutes * 60 * 1000
             hasState == dependency.job \in DOMAIN rs
             depLastRun == IF hasState THEN rs[dependency.job].lastRunAt ELSE Null
             depLastSuccess == IF hasState THEN rs[dependency.job].lastSuccessAt ELSE Null
             ranInWindow == IF depLastRun # Null
                            THEN Val(depLastRun) >= windowStart
                            ELSE FALSE
             succeededInWindow == IF depLastSuccess # Null
                                  THEN Val(depLastSuccess) >= windowStart
                                  ELSE FALSE
         IN  IF condition = "not_ran"
             THEN ~ranInWindow
             ELSE IF condition = "failed"
                  THEN ranInWindow /\ ~succeededInWindow
                  ELSE ranInWindow /\ ~succeededInWindow

\* a plausible slip: failed looks at the dependency's last failure
shouldRunBasedOnDependency_ByLastFailure(config, rs, t) ==
    IF config.dependsOn = None
    THEN TRUE
    ELSE LET dependency == Val(config.dependsOn)
             condition == IF dependency.condition = Undefined
                          THEN "not_ran_or_failed"
                          ELSE dependency.condition
             windowMinutes == IF dependency.windowMinutes = None
                              THEN DefaultWindowMinutes
                              ELSE Val(dependency.windowMinutes)
             windowStart == t - windowMinutes * 60 * 1000
             hasState == dependency.job \in DOMAIN rs
             depLastRun == IF hasState THEN rs[dependency.job].lastRunAt ELSE Null
             depLastSuccess == IF hasState THEN rs[dependency.job].lastSuccessAt ELSE Null
             depLastFailure == IF hasState THEN rs[dependency.job].lastFailureAt ELSE Null
             ranInWindow == IF depLastRun # Null
                            THEN Val(depLastRun) >= windowStart
                            ELSE FALSE
             succeededInWindow == IF depLastSuccess # Null
                                  THEN Val(depLastSuccess) >= windowStart
                                  ELSE FALSE
             failedInWindow == IF depLastFailure # Null
                               THEN Val(depLastFailure) >= windowStart
                               ELSE FALSE
         IN  IF condition = "not_ran"
             THEN ~ranInWindow
             ELSE IF condition = "failed"
                  THEN ranInWindow /\ failedInWindow
                  ELSE (~ranInWindow) \/ (ranInWindow /\ ~succeededInWindow)

shouldRunBasedOnDependency(config, rs, t) ==
    IF config.dependsOn = None
    THEN TRUE
    ELSE LET dependency == Val(config.dependsOn)
             condition == IF dependency.condition = Undefined
                          THEN "not_ran_or_failed"
                          ELSE dependency.condition
             windowMinutes == IF dependency.windowMinutes = None
                              THEN DefaultWindowMinutes
                              ELSE Val(dependency.windowMinutes)
             windowStart == t - windowMinutes * 60 * 1000
             hasState == dependency.job \in DOMAIN rs
             depLastRun == IF hasState THEN rs[dependency.job].lastRunAt ELSE Null
             depLastSuccess == IF hasState THEN rs[dependency.job].lastSuccessAt ELSE Null
             ranInWindow == IF depLastRun # Null
                            THEN Val(depLastRun) >= windowStart
                            ELSE FALSE
             succeededInWindow == IF depLastSuccess # Null
                                  THEN Val(depLastSuccess) >= windowStart
                                  ELSE FALSE
         IN  IF condition = "not_ran"
             THEN ~ranInWindow
             ELSE IF condition = "failed"
                  THEN ranInWindow /\ ~succeededInWindow
                  ELSE (~ranInWindow) \/ (ranInWindow /\ ~succeededInWindow)

----------------------------------------------------------------------------
(* executeJob: the retry loop, cut at its awaits *)

DefaultRetries == 3
BackoffBaseMs == 1000
BackoffCapMs == 30000

Min(a, b) == IF a <= b THEN a ELSE b

\* config.retries || 3: undefined and 0 are both falsy
maxRetriesOf(config) ==
    IF config.retries = None \/ Val(config.retries) = 0
    THEN DefaultRetries
    ELSE Val(config.retries)

\* a plausible slip: the delay doubles without a cap
backoffDelay_NoCap(attempt) == BackoffBaseMs * 2 ^ (attempt - 1)

backoffDelay(attempt) == Min(BackoffBaseMs * 2 ^ (attempt - 1), BackoffCapMs)

\* what axios resolves with (result.status) or rejects with (error.message)
StatusCodes == {200, 204}
ErrorMessages == {"timeout of 30000ms exceeded", "connect ECONNREFUSED"}

Bearer(token) == "Bearer " \o token

\* { ...a, ...b }: the keys of b win
Spread(a, b) == [k \in (DOMAIN a) \cup (DOMAIN b) |-> IF k \in DOMAIN b THEN b[k] ELSE a[k]]

\* the methods whose request carries a body
BodyMethods == {"POST", "PUT", "PATCH"}

\* makeRequest: the request handed to axios; the Authorization header is
\* built from the token the constructor stored, and config.data is attached
\* as it is when the method carries a body
makeRequest(config, attempt) ==
    [headers |-> Spread(("Authorization" :> Bearer(jwtToken))
                            @@ ("Content-Type" :> "application/json")
                            @@ ("User-Agent" :> "JobScheduler/1.0.0"),
                        IF config.headers = None THEN << >> ELSE Val(config.headers)),
     data |-> IF config.data # None /\ config.method \in BodyMethods
              THEN config.data ELSE None,
     attempt |-> attempt]

\* a plausible slip: the call does not record lastRunAt
executeJobBegin_NoTouch(config, rs, t) ==
    LET maxRetries == maxRetriesOf(config)
        enters == 1 <= maxRetries
    IN  [rs |-> rs,
         call |-> [config |-> config, maxRetries |-> maxRetries,
                   attempt |-> 1, pc |-> IF enters THEN "http" ELSE "throw",
                   delay |-> 0, lastError |-> None,
                   request |-> IF enters THEN Some(makeRequest(config, 1)) ELSE None,
                   trace |-> IF enters THEN <<"request">> ELSE << >>]]

\* executeJob up to its first await: lastRunAt is recorded, attempt = 1, and,
\* when the loop is entered, makeRequest hands the first request to axios;
\* when it is not (maxRetries < 1), the call goes to the throw after the loop
executeJobBegin(config, rs, t) ==
    LET maxRetries == maxRetriesOf(config)
        enters == 1 <= maxRetries
    IN  [rs |-> touchRuntimeState(rs, config.name, [lastRunAt |-> Some(t)]),
         call |-> [config |-> config, maxRetries |-> maxRetries,
                   attempt |-> 1, pc |-> IF enters THEN "http" ELSE "throw",
                   delay |-> 0, lastError |-> None,
                   request |-> IF enters THEN Some(makeRequest(config, 1)) ELSE None,
                   trace |-> IF enters THEN <<"lastRunAt", "request">>
                                       ELSE <<"lastRunAt">>]]

ArmedTasks == { jobs[n] : n \in { m \in DOMAIN jobs : jobs[m].running } } \cup detached

\* inflight is a bag: suspended call -> how many of them
BagAdd(b, e) == IF e \in DOMAIN b THEN [b EXCEPT ![e] = b[e] + 1] ELSE MapSet(b, e, 1)
BagRemove(b, e) == IF b[e] > 1 THEN [b EXCEPT ![e] = b[e] - 1] ELSE MapDelete(b, e)
RECURSIVE BagSize(_)
BagSize(b) ==
    IF DOMAIN b = {} THEN 0
    ELSE LET e == CHOOSE x \in DOMAIN b : TRUE IN b[e] + BagSize(MapDelete(b, e))

\* the calls of one job in a bag of calls
CallsOf(b, jobName) == [c \in { d \in DOMAIN b : d.config.name = jobName } |-> b[c]]

ThrowsUnexpectedPath == "Error: Unexpected execution path"

\* process.on('unhandledRejection'): scheduler.stop(), then server.close with
\* process.exit(1) in its callback
unhandledRejection ==
    /\ jobs' = stopOn(Registry).jobs
    /\ process' = "exiting"

\* the promise of a cron callback rejects. The callback of registerJob has no
\* catch; the cron library, which is not part of this repository, either
\* absorbs the rejection or leaves it unhandled, and then the handler of
\* index.ts runs before any other event
CallbackRejects ==
    \/ UNCHANGED <<jobs, process>>
    \/ unhandledRejection

\* executeJob(config) is entered: the part of the callback after the check
executeJobEnter(config) ==
    LET b == executeJobBegin(config, runtimeState, now)
    IN  /\ runtimeState' = b.rs
        /\ started' = MapSet(started, config.name, now)
        /\ IF b.call.pc = "http"
           THEN /\ inflight' = BagAdd(inflight, b.call)
                /\ last' = Event("fire", config, "executed", None)
                /\ UNCHANGED <<jobs, process>>
           ELSE /\ inflight' = inflight
                /\ last' = Event("fire", config, ThrowsUnexpectedPath, b.call.trace)
                /\ CallbackRejects
        /\ UNCHANGED <<detached, now, jwtToken, currentToken, yamlFile, watcher, env, tokenManager>>

\* a plausible slip: the firing is recorded as a run before the dependency
\* check is made
TimerFires_TouchFirst(task) ==
    /\ task \in ArmedTasks
    /\ IF ~shouldRunBasedOnDependency(task.config, runtimeState, now)
       THEN /\ last' = Event("fire", task.config, "skipped", None)
            /\ runtimeState' = touchRuntimeState(runtimeState, task.config.name,
                                                 [lastRunAt |-> Some(now)])
            /\ UNCHANGED <<jobs, detached, inflight, now, started, jwtToken, currentToken, process, yamlFile, watcher, env, tokenManager>>
       ELSE executeJobEnter(task.config)

\* a plausible slip: firings are serialized, a timer that comes due while a
\* call is in flight is dropped
TimerFires_Serialized(task) ==
    /\ task \in ArmedTasks
    /\ inflight = << >>
    /\ IF ~shouldRunBasedOnDependency(task.config, runtimeState, now)
       THEN /\ last' = Event("fire", task.config, "skipped", None)
            /\ UNCHANGED <<jobs, detached, runtimeState, inflight, now, started, jwtToken, currentToken, process, yamlFile, watcher, env, tokenManager>>
       ELSE executeJobEnter(task.config)

\* a plausible slip: a firing is skipped while a call of its job is in
\* flight
TimerFires_SkipsIfBusy(task) ==
    /\ task \in ArmedTasks
    /\ IF \/ ~shouldRunBasedOnDependency(task.config, runtimeState, now)
          \/ \E c \in DOMAIN inflight : c.config.name = task.config.name
       THEN /\ last' = Event("fire", task.config, "skipped", None)
            /\ UNCHANGED <<jobs, detached, runtimeState, inflight, now, started, jwtToken, currentToken, process, yamlFile, watcher, env, tokenManager>>
       ELSE executeJobEnter(task.config)

\* the cron callback of registerJob, up to the first await of executeJob
TimerFires(task) ==
    /\ task \in ArmedTasks
    /\ IF ~shouldRunBasedOnDependency(task.config, runtimeState, now)
       THEN /\ last' = Event("fire", task.config, "skipped", None)
            /\ UNCHANGED <<jobs, detached, runtimeState, inflight, now, started, jwtToken, currentToken, process, yamlFile, watcher, env, tokenManager>>
       ELSE executeJobEnter(task.config)

\* what executeJob returns: a JobResult, with the attempts made and the
\* order of its writes, requests and sleeps
JobResult(c, success, statusCode, error, trace) ==
    [success |-> success, statusCode |-> statusCode, error |-> error,
     attempts |-> c.attempt, trace |-> trace]

\* a plausible slip: a success also clears the record of the last failure
RequestSucceeds_ClearsFailure(c, status) ==
    /\ c \in DOMAIN inflight
    /\ c.pc = "http"
    /\ runtimeState' = touchRuntimeState(runtimeState, c.config.name,
                                         [lastSuccessAt |-> Some(now),
                                          lastFailureAt |-> Null])
    /\ inflight' = BagRemove(inflight, c)
    /\ last' = Event("executeJob", c.config,
                     JobResult(c, TRUE, Some(status), None,
                               Append(c.trace, "lastSuccessAt")), None)
    /\ UNCHANGED <<jobs, detached, now, started, jwtToken, currentToken, process, yamlFile, watcher, env, tokenManager>>

\* await makeRequest(...) resolves with status: the rest of the try block
RequestSucceeds(c, status) ==
    /\ c \in DOMAIN inflight
    /\ c.pc = "http"
    /\ runtimeState' = touchRuntimeState(runtimeState, c.config.name,
                                         [lastSuccessAt |-> Some(now)])
    /\ inflight' = BagRemove(inflight, c)
    /\ last' = Event("executeJob", c.config,
                     JobResult(c, TRUE, Some(status), None,
                               Append(c.trace, "lastSuccessAt")), None)
    /\ UNCHANGED <<jobs, detached, now, started, jwtToken, currentToken, process, yamlFile, watcher, env, tokenManager>>

\* a plausible slip: lastError keeps the first error of the call
RequestFails_FirstError(c, error) ==
    /\ c \in DOMAIN inflight
    /\ c.pc = "http"
    /\ LET lastError == IF c.lastError = None THEN Some(error) ELSE c.lastError
       IN  IF c.attempt = c.maxRetries
           THEN /\ runtimeState' = touchRuntimeState(runtimeState, c.config.name,
                                                     [lastFailureAt |-> Some(now)])
                /\ inflight' = BagRemove(inflight, c)
                /\ last' = Event("executeJob", c.config,
                                 JobResult(c, FALSE, None, lastError,
                                           Append(c.trace, "lastFailureAt")), None)
           ELSE /\ inflight' = BagAdd(BagRemove(inflight, c),
                                      [c EXCEPT !.pc = "sleep",
                                                !.delay = backoffDelay(c.attempt),
                                                !.lastError = lastError,
                                                !.request = None,
                                                !.trace = Append(c.trace, "sleep")])
                /\ last' = Event("attemptFailed", c.config, c.attempt, None)
                /\ UNCHANGED runtimeState
    /\ UNCHANGED <<jobs, detached, now, started, jwtToken, currentToken, process, yamlFile, watcher, env, tokenManager>>

\* a plausible slip: a job whose retries are exhausted has its binding stopped
RequestFails_StopsJob(c, error) ==
    /\ c \in DOMAIN inflight
    /\ c.pc = "http"
    /\ LET lastError == Some(error)
       IN  IF c.attempt = c.maxRetries
           THEN /\ runtimeState' = touchRuntimeState(runtimeState, c.config.name,
                                                     [lastFailureAt |-> Some(now)])
                /\ inflight' = BagRemove(inflight, c)
                /\ jobs' = [n \in DOMAIN jobs |->
                               IF n = c.config.name THEN taskStop(jobs[n]) ELSE jobs[n]]
                /\ last' = Event("executeJob", c.config,
                                 JobResult(c, FALSE, None, lastError,
                                           Append(c.trace, "lastFailureAt")), None)
           ELSE /\ inflight' = BagAdd(BagRemove(inflight, c),
                                      [c EXCEPT !.pc = "sleep",
                                                !.delay = backoffDelay(c.attempt),
                                                !.lastError = lastError,
                                                !.request = None,
                                                !.trace = Append(c.trace, "sleep")])
                /\ last' = Event("attemptFailed", c.config, c.attempt, None)
                /\ UNCHANGED <<runtimeState, jobs>>
    /\ UNCHANGED <<detached, now, started, jwtToken, currentToken, process, yamlFile, watcher, env, tokenManager>>

\* await makeRequest(...) rejects with error: the catch block, up to the
\* sleep's await
RequestFails(c, error) ==
    /\ c \in DOMAIN inflight
    /\ c.pc = "http"
    /\ LET lastError == Some(error)
       IN  IF c.attempt = c.maxRetries
           THEN /\ runtimeState' = touchRuntimeState(runtimeState, c.config.name,
                                                     [lastFailureAt |-> Some(now)])
                /\ inflight' = BagRemove(inflight, c)
                /\ last' = Event("executeJob", c.config,
                                 JobResult(c, FALSE, None, lastError,
                                           Append(c.trace, "lastFailureAt")), None)
           ELSE /\ inflight' = BagAdd(BagRemove(inflight, c),
                                      [c EXCEPT !.pc = "sleep",
                                                !.delay = backoffDelay(c.attempt),
                                                !.lastError = lastError,
                                                !.request = None,
                                                !.trace = Append(c.trace, "sleep")])
                /\ last' = Event("attemptFailed", c.config, c.attempt, None)
                /\ UNCHANGED runtimeState
    /\ UNCHANGED <<jobs, detached, now, started, jwtToken, currentToken, process, yamlFile, watcher, env, tokenManager>>

\* the backoff timer resolves: attempt++, the loop test, and either the next
\* request or the throw after the loop
SleepEnds(c) ==
    /\ c \in DOMAIN inflight
    /\ c.pc = "sleep"
    /\ IF c.attempt + 1 <= c.maxRetries
       THEN /\ inflight' = BagAdd(BagRemove(inflight, c),
                                  [c EXCEPT !.pc = "http", !.attempt = c.attempt + 1,
                                            !.delay = 0,
                                            !.request = Some(makeRequest(c.config, c.attempt + 1)),
                                            !.trace = Append(c.trace, "request")])
            /\ last' = Event("retry", c.config, c.attempt + 1, None)
            /\ UNCHANGED <<jobs, process>>
       ELSE /\ inflight' = BagRemove(inflight, c)
            /\ last' = Event("fire", c.config, ThrowsUnexpectedPath, c.trace)
            /\ CallbackRejects
    /\ UNCHANGED <<detached, runtimeState, now, started, jwtToken, currentToken, yamlFile, watcher, env, tokenManager>>

\* the current bearer token is replaced (rotation, refresh before expiry)
TokenRotates ==
    /\ currentToken' = IF currentToken = "token-1" THEN "token-2" ELSE "token-1"
    /\ UNCHANGED <<jobs, detached, runtimeState, inflight, now, started, last, jwtToken,
                   process, yamlFile, watcher, env, tokenManager>>

\* a minute passes
Tick ==
    /\ now < MaxTicks * MinuteMs
    /\ now' = now + MinuteMs
    /\ UNCHANGED <<jobs, detached, runtimeState, inflight, started, last, jwtToken, currentToken, process, yamlFile, watcher, env, tokenManager>>

----------------------------------------------------------------------------
(* The YAML configuration source: the jobs file, YamlManager, the startup *)

YamlJob(n) ==
    [name |-> n, schedule |-> "0 * * * *", enabled |-> None, retries |-> None,
     dependsOn |-> None, headers |-> None, method |-> "GET", data |-> None]

\* the job definitions a jobs file holds: A, an A with a schedule that is
\* not valid, B gated on A, and a disabled B
YamlJobs ==
    { YamlJob("A"),
      [YamlJob("A") EXCEPT !.schedule = "61 * * * *"],
      [YamlJob("B") EXCEPT !.dependsOn = Policy("not_ran", Some(1)), !.retries = Some(2)],
      [YamlJob("B") EXCEPT !.enabled = Some(FALSE)] }

YamlFiles == { Some([jobs |-> list, global |-> None]) : list \in JobLists(YamlJobs) }

\* the file createSampleYamlFile writes
SampleYamlFile ==
    Some([jobs |->
            << [YamlJob("test-api-call") EXCEPT !.schedule = "*/5 * * * * *",
                                                !.enabled = Some(TRUE)],
               [YamlJob("health-check") EXCEPT !.schedule = "0 * * * * *",
                                               !.retries = Some(2),
                                               !.enabled = Some(TRUE)],
               [YamlJob("data-sync") EXCEPT !.schedule = "0 */2 * * * *",
                                            !.retries = Some(3),
                                            !.enabled = Some(FALSE),
                                            !.method = "POST",
                                            !.data = Some([timestamp |-> "${NOW}",
                                                           action |-> "sync"]),
                                            !.headers = Some(("Authorization" :> "Bearer ${JWT_TOKEN}")
                                                             @@ ("X-Custom-Header" :> "data-sync"))] >>,
          global |-> Some([defaultRetries |-> Some(3),
                           defaultHeaders |-> Some("Content-Type" :> "application/json")])])

\* createSampleYamlFile: the sample is written only when no file exists;
\* a write that fails is logged and leaves no file
createSampleYamlFile(file, written) ==
    IF file # None THEN file ELSE IF written THEN SampleYamlFile ELSE None

\* x || ... : an absent number and 0 are falsy
Truthy(o) == o # None /\ Val(o) # 0

OrEmpty(o) == IF o = None THEN << >> ELSE Val(o)

\* the JobConfig built from a YAML job: name, schedule, headers, retries and
\* enabled, method and data are carried over (url and timeout are not
\* modelled); no dependsOn is written
convertYamlJobToJobConfig(yamlJob, global) ==
    [name |-> yamlJob.name,
     cronExpression |-> yamlJob.schedule,
     headers |-> Some(Spread(IF global = None THEN << >> ELSE OrEmpty(Val(global).defaultHeaders),
                             OrEmpty(yamlJob.headers))),
     retries |-> IF Truthy(yamlJob.retries) THEN yamlJob.retries
                 ELSE IF global # None /\ Truthy(Val(global).defaultRetries)
                      THEN Val(global).defaultRetries
                      ELSE Some(3),
     enabled |-> yamlJob.enabled # Some(FALSE),
     method |-> yamlJob.method,
     data |-> yamlJob.data,
     dependsOn |-> None]

RECURSIVE FilterMap(_, _)
\* jobs.filter(job => job.enabled !== false).map(convert)
FilterMap(list, global) ==
    IF list = << >>
    THEN << >>
    ELSE LET rest == FilterMap(Tail(list), global)
         IN  IF Head(list).enabled # Some(FALSE)
             THEN <<convertYamlJobToJobConfig(Head(list), global)>> \o rest
             ELSE rest

\* files that give no job list: one that cannot be read, one that is not
\* YAML (readFileSync or yaml.load throws), and one without a jobs key
BrokenYamlFiles ==
    { Some([error |-> "EACCES: permission denied"]),
      Some([error |-> "YAMLException: bad indentation"]),
      Some([global |-> None]) }

\* loadJobsFromYaml: no file, no jobs; a thrown error is caught and gives no
\* jobs, and so does a file without a jobs key
loadJobsFromYaml(file) ==
    IF file = None
    THEN << >>
    ELSE IF "error" \in DOMAIN Val(file)
         THEN << >>
         ELSE IF "jobs" \notin DOMAIN Val(file)
              THEN << >>
              ELSE FilterMap(Val(file).jobs, Val(file).global)

\* index.ts at startup: createSampleYamlFile(), then initialize(callback),
\* which stores the callback, loads the file without using what it loaded,
\* and starts the watcher (ignoreInitial: no event for the file as it is)
Startup ==
    /\ watcher = "none"
    /\ \E written \in BOOLEAN :
          LET file == createSampleYamlFile(yamlFile, written)
          IN  /\ yamlFile' = file
              /\ last' = Event("startup", None, Void, loadJobsFromYaml(file))
    /\ watcher' = "idle"
    /\ UNCHANGED <<jobs, detached, runtimeState, inflight, now, started, jwtToken, currentToken, process, env, tokenManager>>

\* the jobs file is written, created or removed; a started watcher sees it
FileChanges(content) ==
    /\ content # yamlFile
    /\ yamlFile' = content
    /\ watcher' = IF watcher = "none" THEN "none" ELSE "pending"
    /\ last' = Event("fileChanged", None, Void, None)
    /\ UNCHANGED <<jobs, detached, runtimeState, inflight, now, started, jwtToken, currentToken, process, env, tokenManager>>

\* the watcher's change, add or unlink event: handleYamlFileChange loads the
\* file and hands the jobs to the callback of index.ts, which calls
\* scheduler.updateJobsFromYaml(jobs)
handleYamlFileChange ==
    /\ watcher = "pending"
    /\ LET loaded == loadJobsFromYaml(yamlFile)
           r == updateJobsFromYamlOn(Registry, loaded)
       IN  /\ jobs' = r.jobs
           /\ detached' = r.detached
           /\ last' = Event("handleYamlFileChange", loaded, Void,
                             [successCount |-> r.successCount, errorCount |-> r.errorCount])
    /\ watcher' = "idle"
    /\ UNCHANGED <<yamlFile, runtimeState, inflight, now, started, jwtToken, currentToken, process, env, tokenManager>>

----------------------------------------------------------------------------
(* TokenManager: tokens signed with JWT_SECRET and cached until they are    *)
(* about to expire                                                          *)

\* the constructor: an option that is absent or 0 gives way to the default
\* (JWT_TTL_SECONDS and JWT_REFRESH_BUFFER_SECONDS are not set)
newTokenManager(options) ==
    [ttlSeconds |-> IF Truthy(options.ttlSeconds)
                    THEN Val(options.ttlSeconds) ELSE DefaultTtlSeconds,
     refreshBufferSeconds |-> IF Truthy(options.refreshBufferSeconds)
                              THEN Val(options.refreshBufferSeconds)
                              ELSE DefaultRefreshBufferSeconds,
     cache |-> Null]

\* the options a TokenManager is built with: a lifetime of one, two or three
\* minutes, or the default one; a buffer of one or two minutes, or the
\* default one
TokenOptions ==
    [ttlSeconds : {None, Some(60), Some(120), Some(180)},
     refreshBufferSeconds : {None, Some(60), Some(120)}]

DefaultSubject == "scheduler-app"

\* jwt.sign(payload, secret)
sign(payload, secret) == [payload |-> payload, secret |-> secret]

\* a plausible slip: the cached token is kept until it has expired
getTokenOn_NoBuffer(tm, t, secret) ==
    LET nowS == t \div 1000
    IN  IF tm.cache # Null /\ (Val(tm.cache).expiresAt - nowS) > 0
        THEN [tm |-> tm, token |-> Val(tm.cache).token, issued |-> FALSE]
        ELSE LET exp == nowS + tm.ttlSeconds
                 token == sign([sub |-> DefaultSubject, iat |-> nowS, exp |-> exp], secret)
             IN  [tm |-> [tm EXCEPT !.cache = Some([token |-> token, expiresAt |-> exp])],
                  token |-> token, issued |-> TRUE]

\* getToken at time t (milliseconds): the cached token while it has more
\* than refreshBufferSeconds left, a new one otherwise
getTokenOn(tm, t, secret) ==
    LET nowS == t \div 1000
    IN  IF tm.cache # Null /\ (Val(tm.cache).expiresAt - nowS) > tm.refreshBufferSeconds
        THEN [tm |-> tm, token |-> Val(tm.cache).token, issued |-> FALSE]
        ELSE LET exp == nowS + tm.ttlSeconds
                 token == sign([sub |-> DefaultSubject, iat |-> nowS, exp |-> exp], secret)
             IN  [tm |-> [tm EXCEPT !.cache = Some([token |-> token, expiresAt |-> exp])],
                  token |-> token, issued |-> TRUE]

\* a call of getToken; the event keeps the cache the call found
getToken ==
    LET r == getTokenOn(tokenManager, now, Val(env.JWT_SECRET))
    IN  /\ tokenManager' = r.tm
        /\ last' = Event("getToken", tokenManager.cache, r.token, [issued |-> r.issued])
        /\ UNCHANGED <<jobs, detached, runtimeState, inflight, now, started, jwtToken,
                       currentToken, process, yamlFile, watcher, env>>

----------------------------------------------------------------------------
(* Specifications *)

\* the field initialisers, and what is there before anything has run
Fresh ==
    /\ jobs = << >>
    /\ detached = {}
    /\ runtimeState = << >>
    /\ inflight = << >>
    /\ now = 0
    /\ started = << >>
    /\ currentToken = "token-1"
    /\ yamlFile = None
    /\ watcher = "none"

\* a TokenManager built with no options
DefaultTokenManager ==
    newTokenManager([ttlSeconds |-> None, refreshBufferSeconds |-> None])

\* the scheduler is constructed, with JWT_TOKEN set
Init ==
    /\ Fresh
    /\ last = Event("new JobScheduler", None, Void, None)
    /\ env = [JWT_TOKEN |-> Some(currentToken), JWT_SECRET |-> None]
    /\ jwtToken = currentToken
    /\ process = "running"
    /\ tokenManager = DefaultTokenManager

ThrowsJwtTokenRequired == "Error: JWT_TOKEN environment variable is required"

\* the environments the process is started in; an empty value is one that
\* is not set
Environments ==
    [JWT_TOKEN : {None, Some("token-1")}, JWT_SECRET : {None, Some("secret")}]

\* the process has been started and index.ts has not run yet
InitEnv ==
    /\ Fresh
    /\ last = Event("node", None, Void, None)
    /\ env \in Environments
    /\ jwtToken = ""
    /\ process = "starting"
    /\ tokenManager = DefaultTokenManager

\* index.ts up to the construction of the scheduler: the check that one of
\* JWT_TOKEN and JWT_SECRET is set, then new JobScheduler(), whose
\* constructor reads JWT_TOKEN alone and throws without it; the handlers for
\* uncaught errors are installed later, so the throw ends the process
Main ==
    /\ process = "starting"
    /\ IF env.JWT_TOKEN = None /\ env.JWT_SECRET = None
       THEN /\ process' = "exited"
            /\ last' = Event("main", env, "process.exit(1)", None)
            /\ UNCHANGED jwtToken
       ELSE /\ jwtToken' = IF env.JWT_TOKEN = None THEN "" ELSE Val(env.JWT_TOKEN)
            /\ IF jwtToken' = ""
               THEN /\ process' = "crashed"
                    /\ last' = Event("main", env, ThrowsJwtTokenRequired, None)
               ELSE /\ process' = "running"
                    /\ last' = Event("main", env, Void, None)
    /\ UNCHANGED <<jobs, detached, runtimeState, inflight, now, started, currentToken,
                   yamlFile, watcher, env, tokenManager>>

\* the registry's life cycle, as its callers drive it
NextRegistry ==
    \/ \E config \in RegistryConfigs : registerJob(config)
    \/ \E jobName \in JobNames : removeJob(jobName)
    \/ \E failing \in SUBSET JobNames : start(failing)
    \/ stop
    \/ \E list \in JobLists(RegistryConfigs) : updateJobsFromYaml(list)

SpecRegistry == Init /\ [][NextRegistry]_vars

\* firings of registered jobs; start() is never called
NextFiring ==
    \/ \E config \in FiringConfigs : registerJob(config)
    \/ \E task \in ArmedTasks : TimerFires(task) /\ BagSize(inflight') <= MaxInFlight
    \/ \E c \in DOMAIN inflight : RequestSucceeds(c, 200)
    \/ \E c \in DOMAIN inflight : RequestFails(c, "connect ECONNREFUSED")
    \/ \E c \in DOMAIN inflight : SleepEnds(c)
    \/ Tick

SpecFiring == Init /\ [][NextFiring]_vars

\* the retry loop of one job, with every outcome of every attempt
NextRetry ==
    \/ \E config \in RetryConfigs : registerJob(config)
    \/ \E task \in ArmedTasks : TimerFires(task) /\ BagSize(inflight') <= MaxInFlight
    \/ \E c \in DOMAIN inflight, status \in StatusCodes : RequestSucceeds(c, status)
    \/ \E c \in DOMAIN inflight, error \in ErrorMessages : RequestFails(c, error)
    \/ \E c \in DOMAIN inflight : SleepEnds(c)
    \/ Tick

SpecRetry == Init /\ [][NextRetry]_vars

\* a long retry loop; the clock stands still
NextBackoff ==
    \/ \E config \in BackoffConfigs : registerJob(config)
    \/ \E task \in ArmedTasks : TimerFires(task) /\ BagSize(inflight') <= MaxInFlight
    \/ \E c \in DOMAIN inflight, status \in StatusCodes : RequestSucceeds(c, status)
    \/ \E c \in DOMAIN inflight, error \in ErrorMessages : RequestFails(c, error)
    \/ \E c \in DOMAIN inflight : SleepEnds(c)

SpecBackoff == Init /\ [][NextBackoff]_vars

\* firings of a job gated on the runs of another
NextDependency ==
    \/ \E config \in DependencyConfigs : registerJob(config)
    \/ \E task \in ArmedTasks : TimerFires(task) /\ BagSize(inflight') <= MaxInFlight
    \/ \E c \in DOMAIN inflight : RequestSucceeds(c, 200)
    \/ \E c \in DOMAIN inflight : RequestFails(c, "connect ECONNREFUSED")
    \/ Tick

SpecDependency == Init /\ [][NextDependency]_vars

\* requests of jobs with and without headers of their own, while the current
\* token changes
NextDispatch ==
    \/ \E config \in DispatchConfigs : registerJob(config)
    \/ \E task \in ArmedTasks : TimerFires(task) /\ BagSize(inflight') <= MaxInFlight
    \/ \E c \in DOMAIN inflight : RequestSucceeds(c, 200)
    \/ \E c \in DOMAIN inflight : RequestFails(c, "connect ECONNREFUSED")
    \/ \E c \in DOMAIN inflight : SleepEnds(c)
    \/ TokenRotates

SpecDispatch == Init /\ [][NextDispatch]_vars

\* the registry is reconciled, stopped and started while jobs fire and calls
\* are in flight; the clock stands still
NextReconcile ==
    \/ \E config \in ReconcileConfigs : registerJob(config)
    \/ \E jobName \in JobNames : removeJob(jobName)
    \/ \E list \in JobLists(ReconcileConfigs) : updateJobsFromYaml(list)
    \/ start({})
    \/ stop
    \/ \E task \in ArmedTasks : TimerFires(task) /\ BagSize(inflight') <= MaxInFlight
    \/ \E c \in DOMAIN inflight : RequestSucceeds(c, 200)
    \/ \E c \in DOMAIN inflight : RequestFails(c, "connect ECONNREFUSED")
    \/ \E c \in DOMAIN inflight : SleepEnds(c)

SpecReconcile == Init /\ [][NextReconcile]_vars

\* two jobs whose calls overlap: the bound on calls in flight is per job,
\* with one call more than that in all; the clock stands still
NextConcurrent ==
    \/ \E config \in ConcurrentConfigs : registerJob(config)
    \/ \E task \in ArmedTasks :
          /\ TimerFires(task)
          /\ BagSize(CallsOf(inflight', task.config.name)) <= MaxInFlight
          /\ BagSize(inflight') <= MaxInFlight + 1
    \/ \E c \in DOMAIN inflight : RequestSucceeds(c, 200)
    \/ \E c \in DOMAIN inflight : RequestFails(c, "connect ECONNREFUSED")
    \/ \E c \in DOMAIN inflight : SleepEnds(c)

SpecConcurrent == Init /\ [][NextConcurrent]_vars

\* firings of a job gated on the failure of another, whose calls may be in
\* flight when it fires: the bound on calls in flight is per job, with one
\* call more than that in all
NextFailedGate ==
    \/ \E config \in FailedGateConfigs : registerJob(config)
    \/ \E task \in ArmedTasks :
          /\ TimerFires(task)
          /\ BagSize(CallsOf(inflight', task.config.name)) <= MaxInFlight
          /\ BagSize(inflight') <= MaxInFlight + 1
    \/ \E c \in DOMAIN inflight : RequestSucceeds(c, 200)
    \/ \E c \in DOMAIN inflight : RequestFails(c, "connect ECONNREFUSED")
    \/ Tick

SpecFailedGate == Init /\ [][NextFailedGate]_vars

\* firings of a job that sends a body
NextPayload ==
    \/ \E config \in PayloadConfigs : registerJob(config)
    \/ \E task \in ArmedTasks : TimerFires(task) /\ BagSize(inflight') <= MaxInFlight
    \/ \E c \in DOMAIN inflight : RequestSucceeds(c, 200)
    \/ \E c \in DOMAIN inflight : RequestFails(c, "connect ECONNREFUSED")
    \/ Tick

SpecPayload == Init /\ [][NextPayload]_vars

\* the process from its start on: the scheduler is built from the
\* environment, then jobs are registered and fire
NextAuth ==
    \/ Main
    \/ /\ process = "running"
       /\ \/ \E config \in ConcurrentConfigs : registerJob(config)
          \/ \E task \in ArmedTasks : TimerFires(task) /\ BagSize(inflight') <= MaxInFlight
          \/ \E c \in DOMAIN inflight : RequestSucceeds(c, 200)
          \/ \E c \in DOMAIN inflight : RequestFails(c, "connect ECONNREFUSED")
          \/ \E c \in DOMAIN inflight : SleepEnds(c)

SpecAuth == InitEnv /\ [][NextAuth]_vars

\* a TokenManager has been built from JWT_SECRET
InitToken ==
    /\ Fresh
    /\ last = Event("new TokenManager", None, Void, None)
    /\ env = [JWT_TOKEN |-> Some(currentToken), JWT_SECRET |-> Some("secret")]
    /\ jwtToken = currentToken
    /\ process = "running"
    /\ tokenManager \in { newTokenManager(options) : options \in TokenOptions }

\* tokens are asked for as time passes
NextToken ==
    \/ getToken
    \/ Tick

SpecToken == InitToken /\ [][NextToken]_vars

\* firings of one job that overlap: one call more in flight than elsewhere;
\* the clock stands still
NextOverlap ==
    \/ \E config \in ConcurrentConfigs : registerJob(config)
    \/ \E task \in ArmedTasks : TimerFires(task) /\ BagSize(inflight') <= MaxInFlight + 1
    \/ \E c \in DOMAIN inflight : RequestSucceeds(c, 200)
    \/ \E c \in DOMAIN inflight : RequestFails(c, "connect ECONNREFUSED")
    \/ \E c \in DOMAIN inflight : SleepEnds(c)

SpecOverlap == Init /\ [][NextOverlap]_vars

\* the jobs file and its watcher, from before the startup on
NextYaml ==
    \/ Startup
    \/ \E content \in YamlFiles \cup {None} : FileChanges(content)
    \/ handleYamlFileChange

SpecYaml == Init /\ [][NextYaml]_vars

\* the jobs file and its watcher, with files that cannot be loaded
NextReload ==
    \/ Startup
    \/ \E content \in YamlFiles \cup BrokenYamlFiles \cup {None} : FileChanges(content)
    \/ handleYamlFileChange

SpecReload == Init /\ [][NextReload]_vars

----------------------------------------------------------------------------
(* Properties of the registry, checked under SpecRegistry *)

TasksNamed(set, n) == { t \in set : t.config.name = n }

\* C1: after registerJob, a valid cron expression means the call returned and
\* the name is registered; an invalid one means the call threw the
\* configuration error and the name is not registered, whatever was
\* registered before.
C1_RegisterValidates ==
    last.op = "registerJob" =>
        IF last.arg.cronExpression \in ValidCron
        THEN last.ret = Void /\ last.arg.name \in getJobNames
        ELSE last.ret = ThrowsInvalidCron /\ last.arg.name \notin getJobNames

C1_Witness ==
    /\ last.op = "registerJob"
    /\ last.ret = ThrowsInvalidCron
    /\ getJobNames # {}

NamesIn(list) == { list[i].name : i \in DOMAIN list }
\* the definition that the loop registers last under name n
LastNamed(list, n) ==
    list[CHOOSE i \in DOMAIN list :
            /\ list[i].name = n
            /\ \A j \in DOMAIN list : list[j].name = n => j <= i]

Rejected(list) == { i \in DOMAIN list : list[i].cronExpression \notin ValidCron }

\* C4 as stated: a rejected definition stops no other definition of the batch
\* from being registered, nothing is thrown, and the caller receives the list
\* of failures.
C4_CallerGetsFailures ==
    last.op = "updateJobsFromYaml" =>
        /\ \A i \in DOMAIN last.arg :
               last.arg[i].cronExpression \in ValidCron
                   => last.arg[i].name \in getJobNames
        /\ last.ret # Void

\* C4 amended: a rejected definition stops no definition of another name from
\* being registered (it does remove a binding made earlier in the batch under
\* its own name), nothing is thrown, and the caller receives nothing: the
\* call returns void, and the failures are only counted in the log.
C4_BatchSurvivesRejects ==
    last.op = "updateJobsFromYaml" =>
        /\ last.ret = Void
        /\ last.log.errorCount = Cardinality(Rejected(last.arg))
        /\ last.log.successCount + last.log.errorCount = Len(last.arg)
        /\ \A i \in DOMAIN last.arg :
               (/\ last.arg[i].cronExpression \in ValidCron
                /\ \A j \in Rejected(last.arg) : last.arg[j].name # last.arg[i].name)
               => last.arg[i].name \in getJobNames

\* a rejected definition comes first, a valid one of another name after it
C4_Witness ==
    /\ last.op = "updateJobsFromYaml"
    /\ Len(last.arg) >= 2
    /\ 1 \in Rejected(last.arg)
    /\ last.arg[2].cronExpression \in ValidCron
    /\ last.arg[2].name # last.arg[1].name
    /\ last.arg[2].name \in getJobNames

\* C5 as stated: a definition with enabled = false is never bound to a timer.
C5_DisabledNeverBound ==
    /\ \A n \in DOMAIN jobs : jobs[n].config.enabled
    /\ \A t \in ArmedTasks : t.config.enabled

\* C6: removeJob(name) returns true exactly when name was bound; then the
\* name is unbound and no armed timer of that name is left; otherwise nothing
\* changes; every other binding is as it was.
C6_RemoveJob ==
    [][\A n \in JobNames :
          (last'.op = "removeJob" /\ removeJob(n))
          => /\ last'.ret = (n \in DOMAIN jobs)
             /\ n \notin DOMAIN jobs'
             /\ TasksNamed(ArmedTasks', n) = {}
             /\ n \notin DOMAIN jobs => jobs' = jobs /\ detached' = detached
             /\ DOMAIN jobs' = DOMAIN jobs \ {n}
             /\ \A m \in DOMAIN jobs' : jobs'[m] = jobs[m]
             /\ UNCHANGED <<runtimeState, inflight, jwtToken, currentToken, process, yamlFile, watcher, env, tokenManager>>]_vars

\* a binding was removed and another one is still there, armed
C6_Witness ==
    /\ last.op = "removeJob"
    /\ last.ret = TRUE
    /\ \E m \in DOMAIN jobs : jobs[m].running

----------------------------------------------------------------------------
(* Properties of firings, checked under SpecFiring *)

\* C7: the binding that a successful registerJob leaves is armed, so its
\* timer fires without start() (no behaviour of SpecFiring calls start()).
C7_RegisteredIsArmed ==
    (last.op = "registerJob" /\ last.ret = Void) =>
        /\ jobs[last.arg.name].running
        /\ jobs[last.arg.name] \in ArmedTasks
        /\ jobs[last.arg.name].config = last.arg

\* a registered job has fired and its request is out
C7_Witness ==
    /\ last.op = "fire"
    /\ last.ret = "executed"
    /\ \E c \in DOMAIN inflight : c.config = last.arg /\ c.pc = "http"

\* C8: a firing that the dependency check skips sends no request and leaves
\* the Runtime State Store as it was.
C8_SkipTouchesNothing ==
    [][\A task \in ArmedTasks :
          (/\ last'.op = "fire"
           /\ TimerFires(task)
           /\ ~shouldRunBasedOnDependency(task.config, runtimeState, now))
          => /\ last'.ret = "skipped"
             /\ runtimeState' = runtimeState
             /\ inflight' = inflight]_vars

\* B's firing was skipped while B has a history of its own
C8_Witness ==
    /\ last.op = "fire"
    /\ last.ret = "skipped"
    /\ last.arg.name \in DOMAIN runtimeState

NotRanPolicy(config) ==
    /\ config.dependsOn # None
    /\ Val(config.dependsOn).condition = "not_ran"
    /\ Val(config.dependsOn).windowMinutes # None

\* the firing of config sends its first request
Dispatches(config) ==
    /\ last'.ret = "executed"
    /\ \E c \in DOMAIN inflight' :
           /\ c.config = config
           /\ c.pc = "http"
           /\ c.attempt = 1
           /\ inflight' = BagAdd(inflight, c)

\* C9: for a job gated by {job: A, condition: not_ran, windowMinutes: w}, a
\* firing before any executeJob call of A has begun sends its request, and a
\* firing at most w minutes after such a call began is skipped: no request,
\* no change to the Runtime State Store.
C9_NotRanGate ==
    [][\A task \in ArmedTasks :
          (last'.op = "fire" /\ TimerFires(task) /\ NotRanPolicy(task.config))
          => LET dep == Val(task.config.dependsOn)
                 w == Val(dep.windowMinutes)
             IN  /\ dep.job \notin DOMAIN started => Dispatches(task.config)
                 /\ (/\ dep.job \in DOMAIN started
                     /\ now - started[dep.job] <= w * MinuteMs)
                    => /\ last'.ret = "skipped"
                       /\ inflight' = inflight
                       /\ runtimeState' = runtimeState]_vars

\* B was skipped a minute after A began a run that is still in flight
C9_Witness ==
    /\ last.op = "fire"
    /\ last.ret = "skipped"
    /\ NotRanPolicy(last.arg)
    /\ "A" \in DOMAIN started
    /\ now = started["A"] + MinuteMs
    /\ \E c \in DOMAIN inflight : c.config.name = "A"

Count(seq, x) == Cardinality({ i \in DOMAIN seq : seq[i] = x })

\* lastRunAt is written first and once in the trace of a call
WritesRunOnceFirst(trace) ==
    /\ Len(trace) >= 2
    /\ trace[1] = "lastRunAt"
    /\ trace[2] = "request"
    /\ Count(trace, "lastRunAt") = 1

\* C10: every executeJob call writes lastRunAt once, before its first
\* request, whatever follows: in the store, lastRunAt of a job is the time
\* its most recent call began, during the call and after it ended.
C10_LastRunAtOnce ==
    /\ \A c \in DOMAIN inflight : WritesRunOnceFirst(c.trace)
    /\ last.op = "executeJob" => WritesRunOnceFirst(last.ret.trace)
    /\ \A n \in DOMAIN started :
           /\ n \in DOMAIN runtimeState
           /\ runtimeState[n].lastRunAt = Some(started[n])
    /\ \A n \in DOMAIN runtimeState : n \in DOMAIN started

\* a call of three attempts failed, a minute after it began
C10_Witness ==
    /\ last.op = "executeJob"
    /\ last.ret.success = FALSE
    /\ last.ret.attempts = 3
    /\ runtimeState[last.arg.name].lastRunAt = Some(0)
    /\ runtimeState[last.arg.name].lastFailureAt = Some(MinuteMs)

----------------------------------------------------------------------------
(* Properties of the retry loop, checked under SpecRetry and SpecBackoff *)

\* the last event is the end of an executeJob call: a JobResult was returned
\* or the error after the loop was thrown
CallEnded ==
    \/ last.op = "executeJob"
    \/ (last.op = "fire" /\ last.ret = ThrowsUnexpectedPath)

EndTrace == IF last.op = "executeJob" THEN last.ret.trace ELSE last.log

OutcomeWrites(trace) == Count(trace, "lastSuccessAt") + Count(trace, "lastFailureAt")

\* C11 as stated: every executeJob call, whatever the job definition, writes
\* exactly one of lastSuccessAt and lastFailureAt, as its last step, and none
\* before its end.
C11_ExactlyOneOutcome ==
    /\ \A c \in DOMAIN inflight : OutcomeWrites(c.trace) = 0
    /\ CallEnded =>
           /\ OutcomeWrites(EndTrace) = 1
           /\ EndTrace[Len(EndTrace)] \in {"lastSuccessAt", "lastFailureAt"}

\* C12: the call whose last allowed attempt fails (every attempt before it
\* failed too) has made n = maxRetries attempts and n - 1 sleeps, returns
\* success = false with the error of that last attempt, sets lastFailureAt
\* and leaves lastSuccessAt as it was.
C12_AllAttemptsFail ==
    [][\A c \in DOMAIN inflight, error \in ErrorMessages :
          (/\ last'.op = "executeJob"
           /\ RequestFails(c, error))
          => LET n == maxRetriesOf(c.config)
                 name == c.config.name
             IN  /\ n >= 1
                 /\ last'.ret.success = FALSE
                 /\ last'.ret.attempts = n
                 /\ Count(last'.ret.trace, "request") = n
                 /\ Count(last'.ret.trace, "sleep") = n - 1
                 /\ last'.ret.error = Some(error)
                 /\ runtimeState'[name].lastFailureAt = Some(now)
                 /\ runtimeState'[name].lastSuccessAt = runtimeState[name].lastSuccessAt
                 /\ inflight' = BagRemove(inflight, c)]_vars

\* three attempts failed; the success recorded by an earlier call is still
\* there
C12_Witness ==
    /\ last.op = "executeJob"
    /\ last.ret.success = FALSE
    /\ last.ret.attempts = 3
    /\ last.ret.error = Some("connect ECONNREFUSED")
    /\ runtimeState["A"].lastSuccessAt = Some(0)
    /\ runtimeState["A"].lastFailureAt = Some(2 * MinuteMs)

\* C13: the call whose attempt k succeeds (attempts 1..k-1 failed) has made
\* k attempts and k - 1 sleeps, returns success = true with the status code
\* of attempt k, sets lastSuccessAt, leaves lastFailureAt as it was, and is
\* over: it sends no further request.
C13_SucceedsAtK ==
    [][\A c \in DOMAIN inflight, status \in StatusCodes :
          (/\ last'.op = "executeJob"
           /\ RequestSucceeds(c, status))
          => LET k == c.attempt
                 name == c.config.name
             IN  /\ k <= maxRetriesOf(c.config)
                 /\ last'.ret.success = TRUE
                 /\ last'.ret.statusCode = Some(status)
                 /\ last'.ret.attempts = k
                 /\ Count(last'.ret.trace, "request") = k
                 /\ Count(last'.ret.trace, "sleep") = k - 1
                 /\ runtimeState'[name].lastSuccessAt = Some(now)
                 /\ runtimeState'[name].lastFailureAt = runtimeState[name].lastFailureAt
                 /\ inflight' = BagRemove(inflight, c)]_vars

\* the second attempt succeeded with 204; the failure recorded by an earlier
\* call is still there
C13_Witness ==
    /\ last.op = "executeJob"
    /\ last.ret.success = TRUE
    /\ last.ret.statusCode = Some(204)
    /\ last.ret.attempts = 2
    /\ Count(last.ret.trace, "sleep") = 1
    /\ runtimeState["A"].lastFailureAt = Some(0)
    /\ runtimeState["A"].lastSuccessAt = Some(MinuteMs)

\* the delays of the claim, by the number of the failed attempt
ClaimedDelays == <<1000, 2000, 4000, 8000, 16000, 30000, 30000>>

\* C14: the sleep after failed attempt a, a < maxRetries, lasts 1000, 2000,
\* 4000, 8000, 16000, 30000, 30000 ms for a = 1..7; a call never sleeps after
\* its last allowed attempt, and a call that has ended did not end on a sleep.
C14_BackoffDelays ==
    /\ \A c \in DOMAIN inflight :
           IF c.pc = "sleep"
           THEN /\ c.attempt < c.maxRetries
                /\ c.attempt \in DOMAIN ClaimedDelays
                /\ c.delay = ClaimedDelays[c.attempt]
                /\ c.trace[Len(c.trace)] = "sleep"
           ELSE c.trace[Len(c.trace)] = "request"
    /\ last.op = "executeJob" =>
           LET trace == last.ret.trace
           IN  /\ trace[Len(trace) - 1] = "request"
               /\ Count(trace, "sleep") = last.ret.attempts - 1

\* the seventh attempt failed and the call sleeps the capped delay
C14_Witness ==
    \E c \in DOMAIN inflight :
        /\ c.pc = "sleep"
        /\ c.attempt = 7
        /\ c.delay = BackoffCapMs

\* C15 as stated: every executeJob call, whatever retries is, ends by
\* returning a JobResult, after at most maxRetries requests.
C15_ReturnsJobResult ==
    /\ last.op = "fire" => last.ret # ThrowsUnexpectedPath
    /\ last.op = "executeJob" =>
           Count(last.ret.trace, "request") <= maxRetriesOf(last.arg)
    /\ \A c \in DOMAIN inflight :
           Count(c.trace, "request") <= maxRetriesOf(c.config)

----------------------------------------------------------------------------
(* Properties of the dependency check, checked under SpecDependency *)

InWindow(timestamp, windowStart) == timestamp # Null /\ Val(timestamp) >= windowStart

\* the window of a gated job's policy starts here
WindowStart(config, t) ==
    LET dep == Val(config.dependsOn)
    IN  t - (IF dep.windowMinutes = None THEN 180 ELSE Val(dep.windowMinutes)) * MinuteMs

RanInWindow(config, rs, t) ==
    LET dep == Val(config.dependsOn)
    IN  /\ dep.job \in DOMAIN rs
        /\ InWindow(rs[dep.job].lastRunAt, WindowStart(config, t))

SucceededInWindow(config, rs, t) ==
    LET dep == Val(config.dependsOn)
    IN  /\ dep.job \in DOMAIN rs
        /\ InWindow(rs[dep.job].lastSuccessAt, WindowStart(config, t))

ConditionOf(config) ==
    IF Val(config.dependsOn).condition = Undefined
    THEN "not_ran_or_failed"
    ELSE Val(config.dependsOn).condition

\* the reference function of the design
ReferenceShouldRun(config, rs, t) ==
    \/ config.dependsOn = None
    \/ /\ config.dependsOn # None
       /\ LET ran == RanInWindow(config, rs, t)
              succeeded == SucceededInWindow(config, rs, t)
          IN  CASE ConditionOf(config) = "not_ran" -> ~ran
                [] ConditionOf(config) = "failed" -> ran /\ ~succeeded
                [] ConditionOf(config) = "not_ran_or_failed" ->
                       (~ran) \/ (ran /\ ~succeeded)

\* C16: in every state the scheduler reaches, and for every dependency
\* policy (none; not_ran, failed, not_ran_or_failed or no condition; a window
\* of one minute or the default of 180), shouldRunBasedOnDependency gives
\* what the reference function of the design gives.
C16_MatchesReference ==
    \A config \in PolicyConfigs :
        shouldRunBasedOnDependency(config, runtimeState, now)
            = ReferenceShouldRun(config, runtimeState, now)

\* A's last run began exactly at the start of a one-minute window and
\* succeeded: it counts as inside, and a firing under not_ran is skipped
C16_Witness ==
    /\ "A" \in DOMAIN runtimeState
    /\ runtimeState["A"].lastRunAt = Some(now - MinuteMs)
    /\ runtimeState["A"].lastSuccessAt # Null
    /\ \E config \in PolicyConfigs :
           /\ config.dependsOn # None
           /\ ConditionOf(config) = "not_ran"
           /\ Val(config.dependsOn).windowMinutes = Some(1)
           /\ ~shouldRunBasedOnDependency(config, runtimeState, now)

NotRanOrFailedPolicy(config) ==
    /\ config.dependsOn # None
    /\ ConditionOf(config) = "not_ran_or_failed"

\* C17 as stated: under not_ran_or_failed, shouldRun is !succeededInWindow in
\* every state.
C17_EqualsNotSucceeded ==
    \A config \in PolicyConfigs :
        NotRanOrFailedPolicy(config)
            => shouldRunBasedOnDependency(config, runtimeState, now)
                   = ~SucceededInWindow(config, runtimeState, now)

\* C17 amended: a firing of a job gated under not_ran_or_failed is skipped
\* exactly when both lastRunAt and lastSuccessAt of the dependency lie within
\* the window; it runs when the last run began before the window, even if
\* its success lies within the window.
C17_SkipsIffRanAndSucceeded ==
    [][\A task \in ArmedTasks :
          (/\ last'.op = "fire"
           /\ TimerFires(task)
           /\ NotRanOrFailedPolicy(task.config))
          => ((last'.ret = "skipped")
                 <=> (/\ RanInWindow(task.config, runtimeState, now)
                      /\ SucceededInWindow(task.config, runtimeState, now)))]_vars

\* B ran although A's success lies within the window: A's run began before
\* the window
C17_Witness ==
    /\ last.op = "fire"
    /\ last.ret = "executed"
    /\ NotRanOrFailedPolicy(last.arg)
    /\ "A" \in DOMAIN runtimeState
    /\ runtimeState["A"].lastRunAt = Some(0)
    /\ runtimeState["A"].lastSuccessAt = Some(2 * MinuteMs)
    /\ now = 2 * MinuteMs

\* C18: a firing of a job gated under not_ran_or_failed, at a time when the
\* dependency has no lastSuccessAt within the window, sends its request.
C18_RunsWithoutSuccess ==
    [][\A task \in ArmedTasks :
          (/\ last'.op = "fire"
           /\ TimerFires(task)
           /\ NotRanOrFailedPolicy(task.config)
           /\ ~SucceededInWindow(task.config, runtimeState, now))
          => Dispatches(task.config)]_vars

\* B ran because A ran inside the window and failed, its earlier success
\* being out of the window
C18_Witness ==
    /\ last.op = "fire"
    /\ last.ret = "executed"
    /\ NotRanOrFailedPolicy(last.arg)
    /\ now = 2 * MinuteMs
    /\ "A" \in DOMAIN runtimeState
    /\ runtimeState["A"].lastRunAt = Some(MinuteMs)
    /\ runtimeState["A"].lastSuccessAt = Some(0)
    /\ runtimeState["A"].lastFailureAt = Some(MinuteMs)

----------------------------------------------------------------------------
(* Properties of the requests, checked under SpecDispatch *)

AuthorizationOf(c) == Val(c.request).headers["Authorization"]

\* C19 as stated: every request in flight carries Authorization: Bearer
\* <the scheduler's token>, whatever headers its job supplies.
C19_SystemAuthorization ==
    \A c \in DOMAIN inflight :
        c.request # None => AuthorizationOf(c) = Bearer(jwtToken)

\* C20 as stated: a request that is dispatched, the first of a call or a
\* retry, by a job that supplies no headers, carries the token that is
\* current at that moment.
C20_CurrentTokenAtDispatch ==
    [][\A c \in DOMAIN inflight' :
          (/\ c \notin DOMAIN inflight
           /\ c.request # None
           /\ c.config.headers = None)
          => AuthorizationOf(c) = Bearer(currentToken)]_vars

----------------------------------------------------------------------------
(* Properties of start(), checked under SpecRegistry *)

\* C21: after start(), whichever bindings failed to start, the call has
\* returned without an exception and every registered binding that did not
\* fail is started.
C21_StartContinues ==
    last.op = "start" =>
        /\ last.ret = Void
        /\ \A n \in DOMAIN jobs \ last.arg : jobs[n].running

\* start() after stop(): one binding failed to start and is still stopped,
\* another one is started
C21_Witness ==
    /\ last.op = "start"
    /\ \E n \in DOMAIN jobs \cap last.arg : ~jobs[n].running
    /\ \E n \in DOMAIN jobs \ last.arg : jobs[n].running

----------------------------------------------------------------------------
(* Properties of a failed call, checked under SpecFiring *)

\* C22: the step in which a call of executeJob ends in its final failure
\* leaves the process running and every binding, the failed job's included,
\* as it was: the same tasks are registered, and the same timers are armed
\* for the next scheduled time.
C22_FailureLeavesBindings ==
    [][\A c \in DOMAIN inflight :
          (/\ last'.op = "executeJob"
           /\ \E error \in ErrorMessages : RequestFails(c, error)
           /\ ~last'.ret.success)
          => /\ process' = "running"
             /\ jobs' = jobs
             /\ detached' = detached
             /\ ArmedTasks' = ArmedTasks]_vars

\* A fires and is executed again after a call of A ended in its final
\* failure, with B still bound and armed
C22_Witness ==
    /\ last.op = "fire"
    /\ last.arg.name = "A"
    /\ last.ret = "executed"
    /\ runtimeState["A"].lastFailureAt # Null
    /\ runtimeState["A"].lastFailureAt # Some(now)
    /\ process = "running"
    /\ "B" \in DOMAIN jobs
    /\ jobs["B"].running

----------------------------------------------------------------------------
(* Properties of a firing that throws, checked under SpecRetry *)

----------------------------------------------------------------------------
(* Properties of the registry while jobs fire, checked under SpecReconcile *)

RegistryStep ==
    \/ \E config \in ReconcileConfigs : registerJob(config)
    \/ \E jobName \in JobNames : removeJob(jobName)
    \/ \E list \in JobLists(ReconcileConfigs) : updateJobsFromYaml(list)
    \/ start({})
    \/ stop

RegistryOps == {"registerJob", "removeJob", "updateJobsFromYaml", "start", "stop"}

\* C24: a step of registerJob, removeJob, updateJobsFromYaml, start or stop
\* leaves the Runtime State Store as it was, so the history of a job that
\* is removed, or removed and added again, is the one recorded before.
C24_RegistryKeepsHistory ==
    [][(last'.op \in RegistryOps /\ RegistryStep)
          => runtimeState' = runtimeState]_vars

\* updateJobsFromYaml has cleared the registry and bound A and B again: the
\* run of A recorded before A was removed is still in the store
C24_Witness ==
    /\ last.op = "updateJobsFromYaml"
    /\ DOMAIN jobs = {"A", "B"}
    /\ "A" \in DOMAIN runtimeState
    /\ runtimeState["A"].lastRunAt = Some(0)
    /\ runtimeState["A"].lastSuccessAt = Some(0)

\* C25: a step of updateJobsFromYaml or removeJob leaves every call in
\* flight as it was, and a call in flight that ends, in success or in its
\* final failure, returns for the definition it was started with and
\* records lastSuccessAt or lastFailureAt under that job's name, whether or
\* not the job is still registered.
C25_CallsSurviveReconcile ==
    [][/\ (/\ last'.op \in {"updateJobsFromYaml", "removeJob"}
           /\ \/ \E jobName \in JobNames : removeJob(jobName)
              \/ \E list \in JobLists(ReconcileConfigs) : updateJobsFromYaml(list))
          => inflight' = inflight
       /\ \A c \in DOMAIN inflight :
             (/\ last'.op = "executeJob"
              /\ \/ RequestSucceeds(c, 200)
                 \/ RequestFails(c, "connect ECONNREFUSED"))
             => /\ last'.arg = c.config
                /\ c.config.name \in DOMAIN runtimeState'
                /\ IF last'.ret.success
                   THEN runtimeState'[c.config.name].lastSuccessAt = Some(now)
                   ELSE runtimeState'[c.config.name].lastFailureAt = Some(now)]_vars

\* a call of A has ended in its final failure, after a retry, and recorded
\* it while A is not registered
C25_Witness ==
    /\ last.op = "executeJob"
    /\ last.arg.name = "A"
    /\ ~last.ret.success
    /\ last.ret.attempts = 2
    /\ "A" \notin DOMAIN jobs
    /\ runtimeState["A"].lastFailureAt = Some(now)

\* C30: stop() leaves no timer armed and every call in flight as it was;
\* from a state with no timer armed, only start(), registerJob or
\* updateJobsFromYaml arms one; and a firing happens only for a binding
\* whose timer is armed.
C30_StopSilences ==
    [][/\ (last'.op = "stop" /\ stop)
          => (ArmedTasks' = {} /\ inflight' = inflight)
       /\ (ArmedTasks = {} /\ ArmedTasks' # {})
          => last'.op \in {"start", "registerJob", "updateJobsFromYaml"}
       /\ last'.op = "fire"
          => last'.arg \in { task.config : task \in ArmedTasks }]_vars

\* after stop(), with A and B bound and no timer armed, a call of A that was
\* in flight has ended
C30_Witness ==
    /\ last.op = "executeJob"
    /\ last.arg.name = "A"
    /\ DOMAIN jobs = {"A", "B"}
    /\ ArmedTasks = {}

----------------------------------------------------------------------------
(* Properties of overlapping calls, checked under SpecConcurrent *)

\* C26: while a call of one job is in flight, in its request or in its
\* backoff sleep, the armed timer of every other job can fire, and every
\* request in flight can end in success or in failure: no firing waits for
\* another job's call.
C26_FiringsDoNotWait ==
    /\ \A task \in ArmedTasks :
          (\E c \in DOMAIN inflight : c.config.name # task.config.name)
          => ENABLED TimerFires(task)
    /\ \A c \in DOMAIN inflight :
          c.pc = "http"
          => /\ ENABLED RequestSucceeds(c, 200)
             /\ ENABLED RequestFails(c, "connect ECONNREFUSED")

\* the timer of B has fired and its call has begun while a call of A is in
\* its backoff sleep
C26_Witness ==
    /\ last.op = "fire"
    /\ last.arg.name = "B"
    /\ last.ret = "executed"
    /\ \E c \in DOMAIN inflight : c.config.name = "B" /\ c.pc = "http"
    /\ \E c \in DOMAIN inflight : c.config.name = "A" /\ c.pc = "sleep"

----------------------------------------------------------------------------
(* Properties of the configuration source, checked under SpecYaml *)

Range(seq) == { seq[i] : i \in DOMAIN seq }

\* C27 as stated: right after the startup, with no file change yet, the
\* enabled jobs of the file that have a valid schedule are registered.
C27_LoadedAtStartup ==
    last.op = "startup" =>
        getJobNames = { config.name : config \in
                          { c \in Range(loadJobsFromYaml(yamlFile)) :
                                validate(c.cronExpression) } }

\* C28 as stated: after a file change was handled, every job that is
\* registered has the dependsOn of a job of that name in the file.
C28_DependsOnReachesEngine ==
    (last.op = "handleYamlFileChange" /\ yamlFile # None) =>
        \A n \in DOMAIN jobs :
            \E yamlJob \in Range(Val(yamlFile).jobs) :
                /\ yamlJob.name = n
                /\ yamlJob.schedule = jobs[n].config.cronExpression
                /\ yamlJob.dependsOn = jobs[n].config.dependsOn

----------------------------------------------------------------------------
(* Properties of the status queries, checked under SpecRegistry *)

\* C29 as stated: isJobRunning(name) is true exactly when name has a binding
\* whose timer is started, and getStatus().runningJobs counts those names.
C29_RunningMeansArmed ==
    /\ \A name \in JobNames :
          isJobRunning(name) <=> (name \in DOMAIN jobs /\ jobs[name].running)
    /\ getStatus.runningJobs = Cardinality({ name \in DOMAIN jobs : jobs[name].running })

----------------------------------------------------------------------------
(* Properties of the request body, checked under SpecPayload *)

\* C31 as stated: a request whose job's body holds "current" under weekRange,
\* sent with a method that carries a body, holds startDate and endDate and
\* no weekRange.
C31_WeekRangeResolved ==
    \A c \in DOMAIN inflight :
        (/\ c.request # None
         /\ c.config.method \in BodyMethods
         /\ c.config.data # None
         /\ "weekRange" \in DOMAIN Val(c.config.data)
         /\ Val(c.config.data).weekRange = "current")
        => LET body == Val(c.request).data
           IN  /\ body # None
               /\ {"startDate", "endDate"} \subseteq DOMAIN Val(body)
               /\ "weekRange" \notin DOMAIN Val(body)

----------------------------------------------------------------------------
(* Properties of the startup environment, checked under SpecAuth *)

\* C32 as stated: with JWT_SECRET set, once index.ts has run the process is
\* running, and no request carries the JWT_TOKEN of the environment: the
\* generated token takes its place.
C32_SecretTakesPrecedence ==
    (env.JWT_SECRET # None /\ process # "starting") =>
        /\ process = "running"
        /\ \A c \in DOMAIN inflight :
              (c.request # None /\ env.JWT_TOKEN # None)
              => AuthorizationOf(c) # Bearer(Val(env.JWT_TOKEN))

----------------------------------------------------------------------------
(* Properties of TokenManager, checked under SpecToken *)

----------------------------------------------------------------------------
(* Properties of overlapping calls of one job, checked under SpecOverlap *)

Busy(jobName) == \E c \in DOMAIN inflight : c.config.name = jobName

----------------------------------------------------------------------------
(* Properties of the replacement of the registry, checked under            *)
(* SpecReconcile                                                            *)

\* C35: updateJobsFromYaml is one step: it takes the registry from what it
\* was to the complete replacement, every new binding armed and no old one,
\* and no firing begins within it (no call starts, no history is written);
\* so a firing always finds its binding stored and armed in the registry,
\* and getStatus() counts the names getJobNames() returns.
C35_ReplaceIsOneStep ==
    [][/\ (/\ last'.op = "updateJobsFromYaml"
           /\ \E list \in JobLists(ReconcileConfigs) : updateJobsFromYaml(list))
          => /\ jobs' = [n \in { m \in NamesIn(last'.arg) :
                                    validate(LastNamed(last'.arg, m).cronExpression) } |->
                            [config |-> LastNamed(last'.arg, n), running |-> TRUE]]
             /\ ArmedTasks' = { jobs'[n] : n \in DOMAIN jobs' }
             /\ started' = started
             /\ inflight' = inflight
             /\ runtimeState' = runtimeState
       /\ last'.op = "fire"
          => /\ last'.arg.name \in DOMAIN jobs
             /\ jobs[last'.arg.name] = [config |-> last'.arg, running |-> TRUE]
             /\ jobs' = jobs
       /\ getStatus'.totalJobs = Cardinality(getJobNames')
       /\ getStatus'.jobNames = DOMAIN jobs']_vars

\* updateJobsFromYaml has replaced a registry that held A by one that holds
\* B alone, while a call of A is in flight
C35_Witness ==
    /\ last.op = "updateJobsFromYaml"
    /\ Len(last.arg) > 0
    /\ DOMAIN jobs = {"B"}
    /\ \E c \in DOMAIN inflight : c.config.name = "A"

----------------------------------------------------------------------------
(* Properties of a rejected registration, checked under SpecRegistry       *)

\* C36 as stated: a registerJob call that throws leaves the registry as it
\* was before the call, a binding of the same name still registered and
\* armed.
C36_ThrowLeavesRegistry ==
    [][(/\ last'.op = "registerJob"
        /\ last'.ret = ThrowsInvalidCron)
       => /\ jobs' = jobs
          /\ detached' = detached]_vars

\* C36, amended: a registerJob call that throws leaves no binding under the
\* definition's name: a binding registered under it before the call has been
\* stopped and removed, so that none of its timers is armed; the bindings
\* of all other names and the armed timers outside the registry are as
\* before.
C36_ThrowRemovesOldBinding ==
    [][(/\ last'.op = "registerJob"
        /\ last'.ret = ThrowsInvalidCron)
       => /\ ~validate(last'.arg.cronExpression)
          /\ jobs' = MapDelete(jobs, last'.arg.name)
          /\ detached' = detached
          /\ ArmedTasks' = ArmedTasks \ TasksNamed(Range(jobs), last'.arg.name)
          /\ last'.log.removedOld = (last'.arg.name \in DOMAIN jobs)]_vars

\* a registration was rejected and took the binding of its name with it,
\* while the other job is still bound
C36_Witness ==
    /\ last.op = "registerJob"
    /\ last.ret = ThrowsInvalidCron
    /\ last.log.removedOld
    /\ last.arg.name \notin DOMAIN jobs
    /\ jobs # << >>


\* C37: whatever registerJob, removeJob, start, stop and updateJobsFromYaml
\* have done, every armed timer is the timer of the binding that the
\* registry stores under its job's name: no timer of a replaced, removed or
\* cleared binding is armed, so none can fire.
C37_ArmedMeansRegistered ==
    /\ detached = {}
    /\ \A task \in ArmedTasks :
          /\ task.config.name \in DOMAIN jobs
          /\ jobs[task.config.name] = task

\* a binding was replaced by a registration while the other job is bound
\* and armed: the armed timers are those of the two stored bindings
C37_Witness ==
    /\ last.op = "registerJob"
    /\ last.ret = Void
    /\ last.log.removedOld
    /\ Cardinality(DOMAIN jobs) = 2
    /\ ArmedTasks = Range(jobs)

----------------------------------------------------------------------------
(* Properties of the condition failed, checked under SpecFailedGate        *)

FailedPolicy(config) ==
    /\ config.dependsOn # None
    /\ ConditionOf(config) = "failed"

\* the entry of the dependency, as the store has it
DependencyState(config) ==
    IF Val(config.dependsOn).job \in DOMAIN runtimeState
    THEN runtimeState[Val(config.dependsOn).job]
    ELSE NoRuntimeState

\* a run of the dependency is in progress, and it is the only one that
\* began at lastRunAt or later
DependencyInProgress(config) ==
    /\ BagSize(CallsOf(inflight, Val(config.dependsOn).job)) = 1
    /\ DependencyState(config).lastRunAt # Null

\* no run of the dependency is in progress and the store tells how the
\* most recent one ended: only the stamp of one outcome is as late as its
\* beginning
DependencyEnded(config, stamp, other) ==
    LET s == DependencyState(config)
    IN  /\ ~Busy(Val(config.dependsOn).job)
        /\ s.lastRunAt # Null
        /\ s[stamp] # Null
        /\ Val(s[stamp]) >= Val(s.lastRunAt)
        /\ s[other] # Null => Val(s[other]) < Val(s.lastRunAt)

\* C38 as stated: under failed, a firing of the dependent job runs when the
\* dependency's most recent run began within the window and has ended in
\* terminal failure, and is skipped while that run is in progress, when it
\* ended in success and when no run began within the window.
C38_RunsIffLastRunFailed ==
    [][\A task \in ArmedTasks :
          (/\ last'.op = "fire"
           /\ TimerFires(task)
           /\ FailedPolicy(task.config))
          => /\ (/\ RanInWindow(task.config, runtimeState, now)
                 /\ DependencyEnded(task.config, "lastFailureAt", "lastSuccessAt"))
                => last'.ret # "skipped"
             /\ (\/ ~RanInWindow(task.config, runtimeState, now)
                 \/ DependencyInProgress(task.config)
                 \/ DependencyEnded(task.config, "lastSuccessAt", "lastFailureAt"))
                => last'.ret = "skipped"]_vars

\* C38, amended: under failed, a firing of the dependent job runs exactly
\* when the dependency's lastRunAt lies within the window and its
\* lastSuccessAt does not. So it runs while a run of the dependency that
\* began within the window is in progress and no success lies within the
\* window, and it is skipped when a success lies within the window although
\* a later run ended in terminal failure.
C38_RunsIffRanWithoutSuccess ==
    [][\A task \in ArmedTasks :
          (/\ last'.op = "fire"
           /\ TimerFires(task)
           /\ FailedPolicy(task.config))
          => /\ (last'.ret # "skipped")
                   <=> (/\ RanInWindow(task.config, runtimeState, now)
                        /\ ~SucceededInWindow(task.config, runtimeState, now))
             /\ (/\ DependencyInProgress(task.config)
                 /\ RanInWindow(task.config, runtimeState, now)
                 /\ DependencyState(task.config).lastSuccessAt = Null)
                => last'.ret # "skipped"
             /\ (/\ DependencyEnded(task.config, "lastFailureAt", "lastSuccessAt")
                 /\ SucceededInWindow(task.config, runtimeState, now))
                => last'.ret = "skipped"]_vars

\* B, gated under failed, began its call while the only run of A, which
\* began within the window, is still in progress
C38_Witness ==
    /\ last.op = "fire"
    /\ FailedPolicy(last.arg)
    /\ last.ret # "skipped"
    /\ Busy("A")
    /\ Busy("B")
    /\ runtimeState["A"].lastSuccessAt = Null
    /\ runtimeState["A"].lastFailureAt = Null

\* B, gated under failed, was skipped: A's most recent run ended in
\* terminal failure, its earlier success still lies within the window
C38_WitnessSkipped ==
    /\ last.op = "fire"
    /\ FailedPolicy(last.arg)
    /\ last.ret = "skipped"
    /\ DependencyEnded(last.arg, "lastFailureAt", "lastSuccessAt")
    /\ SucceededInWindow(last.arg, runtimeState, now)

----------------------------------------------------------------------------
(* Properties of a reload that fails, checked under SpecReload             *)

\* the file is missing, unreadable, malformed or has no jobs key
LoadFails(file) == file = None \/ file \in BrokenYamlFiles

\* C39 as stated: a reload of a file that cannot be loaded leaves the jobs
\* that were scheduled registered and armed.
C39_FailedReloadKeepsJobs ==
    [][(/\ last'.op = "handleYamlFileChange"
        /\ handleYamlFileChange
        /\ LoadFails(yamlFile))
       => /\ jobs' = jobs
          /\ ArmedTasks' = ArmedTasks]_vars

\* what the code does: the reload of a file that cannot be loaded hands an
\* empty job list to the scheduler, which stops and forgets every job
C39_FailedReloadClearsJobs ==
    [][(/\ last'.op = "handleYamlFileChange"
        /\ handleYamlFileChange
        /\ LoadFails(yamlFile))
       => /\ last'.arg = << >>
          /\ jobs' = << >>
          /\ ArmedTasks' = {}]_vars

====
